---- MODULE Spec2Model ----
(***************************************************************************)
(* tspidfilter: receive a UDP datagram, locate the 188-byte TS packets in  *)
(* it, rewrite the PID of the packets listed on the command line to 8191,  *)
(* send the datagram on.  The model follows src/tspidfilter.cpp.           *)
(*                                                                         *)
(* A buffer is a sequence of bytes (0..255); C index i is element i+1.     *)
(* A TSHDR_t* is the zero-based offset of the packet in the buffer.        *)
(***************************************************************************)
EXTENDS Integers, Sequences, FiniteSets

\* ---- program constants -------------------------------------------------
MSGBUFSIZE == 1400
TS_LEN == 188
TS_SYNC == 71
PID_NULL == 8191
Pid2PatchCap == 100
UShortMod == 65536

\* ---- bounds of the model -----------------------------------------------
\* PID arguments on the command line
MaxPidArgs == 2
\* datagrams the processing loop receives successfully
MaxDatagrams == 2
\* TS packets in the datagram of the one-iteration specification
MaxPackets == 2

VARIABLES
    pc,             \* position in main: start, sockets, recv, patch, send, exit
    argc,           \* main's argc
    argv,           \* argv[5..argc-1], the PID arguments, as character sequences
    layout,         \* how the compiler allocates TSHDR_t's bit-fields in a byte
    Pid2Patch,      \* the entries Pid2Patch[0..Pid2PatchCount-1]
    Pid2PatchCount,
    fd_ok,          \* create_sockets returned 0
    msgbuf,         \* msgbuf[0..n_in-1]
    n_in, n_ts, ts_offset, n_out,   \* locals of the loop body, 0 outside it
    n_patched,      \* value patch_ts returned in this iteration
    count_udp, count_ts, count_patched,
    sync_lines,     \* "sync error !" lines patch_ts printed in this iteration
    err,            \* last perror message
    rx,             \* the datagram as recvfrom delivered it
    rx_seq,         \* number of datagrams recvfrom has delivered
    tx_ids,         \* the sendto calls made: rx_seq at each call
    tx_buf, tx_len  \* buffer and length passed to the last sendto

vars == <<pc, argc, argv, layout, Pid2Patch, Pid2PatchCount, fd_ok, msgbuf,
          n_in, n_ts, ts_offset, n_out, n_patched, count_udp, count_ts,
          count_patched, sync_lines, err, rx, rx_seq, tx_ids, tx_buf, tx_len>>

\* ---- TSHDR_t -----------------------------------------------------------
\* The order of bit-fields inside a byte is the compiler's choice: the first
\* field declared is in the low bits ("lsb") or in the high bits ("msb").
Layouts == {"lsb", "msb"}

\* p->sync
sync(buf, p) == buf[p + 1]

\* p->pidH, the first 5 bits allocated in the second byte
pidH(buf, p) ==
    IF layout = "lsb" THEN buf[p + 2] % 32 ELSE buf[p + 2] \div 8

\* p->pidL, the whole third byte
pidL(buf, p) == buf[p + 3]

\* tp, pusi, tei: the other 3 bits of the second byte
flags(buf, p) ==
    IF layout = "lsb" THEN buf[p + 2] \div 32 ELSE buf[p + 2] % 8

\* p->pidH = v (v already reduced to 5 bits by the bit-field assignment)
store_pidH(buf, p, v) ==
    IF layout = "lsb"
    THEN [buf EXCEPT ![p + 2] = (buf[p + 2] \div 32) * 32 + (v % 32)]
    ELSE [buf EXCEPT ![p + 2] = (v % 32) * 8 + (buf[p + 2] % 8)]

\* p->pidL = v
store_pidL(buf, p, v) == [buf EXCEPT ![p + 3] = v % 256]

\* ---- transport stream tools --------------------------------------------
get_pid(buf, p) == pidL(buf, p) + pidH(buf, p) * 256

check_sync(buf, p) == TS_SYNC = sync(buf, p)

\* faulty variant: the high PID bits are stored over the whole byte
set_pid_clobber(buf, p, new_pid) ==
    LET m == new_pid % 8192
    IN  [store_pidL(buf, p, m % 256) EXCEPT ![p + 2] = m \div 256]

\* faulty variant: the header is patched in a copy, the buffer keeps the
\* old PID
set_pid_copy(buf, p, new_pid) == buf

set_pid(buf, p, new_pid) ==
    LET m == new_pid % 8192
    IN  store_pidH(store_pidL(buf, p, m % 256), p, m \div 256)

\* the loop over Pid2Patch for the packet at p, from entry i on:
\* every entry equal to the packet's current PID patches and counts
RECURSIVE match_loop(_, _, _, _)
match_loop(buf, p, i, n) ==
    IF i >= Pid2PatchCount THEN [buf |-> buf, n |-> n]
    ELSE IF get_pid(buf, p) = Pid2Patch[i + 1]
         THEN match_loop(set_pid(buf, p, PID_NULL), p, i + 1, n + 1)
         ELSE match_loop(buf, p, i + 1, n)

\* faulty variant: a sync error ends the loop over the packets
RECURSIVE ts_loop_break(_, _, _, _, _)
ts_loop_break(buf, p, n, np, ns) ==
    IF n <= 0 THEN [buf |-> buf, n_patched |-> np, sync_lines |-> ns]
    ELSE IF ~check_sync(buf, p)
         THEN [buf |-> buf, n_patched |-> np, sync_lines |-> ns + 1]
         ELSE LET r == match_loop(buf, p, 0, 0)
              IN  ts_loop_break(r.buf, p + TS_LEN, n - 1, np + r.n, ns)

\* faulty variant: the sync byte is not checked
RECURSIVE ts_loop_nosync(_, _, _, _, _)
ts_loop_nosync(buf, p, n, np, ns) ==
    IF n <= 0 THEN [buf |-> buf, n_patched |-> np, sync_lines |-> ns]
    ELSE LET r == match_loop(buf, p, 0, 0)
         IN  ts_loop_nosync(r.buf, p + TS_LEN, n - 1, np + r.n,
                            IF check_sync(buf, p) THEN ns ELSE ns + 1)

\* the loop over the n packets left, the next one at p
RECURSIVE ts_loop(_, _, _, _, _)
ts_loop(buf, p, n, np, ns) ==
    IF n <= 0 THEN [buf |-> buf, n_patched |-> np, sync_lines |-> ns]
    ELSE IF ~check_sync(buf, p)
         THEN ts_loop(buf, p + TS_LEN, n - 1, np, ns + 1)
         ELSE LET r == match_loop(buf, p, 0, 0)
              IN  ts_loop(r.buf, p + TS_LEN, n - 1, np + r.n, ns)

\* patch_ts(msgbuf + off, n): the buffer after the call, the value returned
\* and the number of "sync error !" lines printed
patch_ts(buf, off, n) == ts_loop(buf, off, n, 0, 0)

\* ---- parse_args --------------------------------------------------------
Digits == {"0", "1", "2", "3", "4", "5", "6", "7", "8", "9"}

DigitVal(c) ==
    CASE c = "0" -> 0 [] c = "1" -> 1 [] c = "2" -> 2 [] c = "3" -> 3
      [] c = "4" -> 4 [] c = "5" -> 5 [] c = "6" -> 6 [] c = "7" -> 7
      [] c = "8" -> 8 [] c = "9" -> 9

RECURSIVE atoi_digits(_, _, _)
atoi_digits(s, i, acc) ==
    IF i > Len(s) \/ s[i] \notin Digits THEN acc
    ELSE atoi_digits(s, i + 1, acc * 10 + DigitVal(s[i]))

\* atoi: optional sign, then the leading decimal digits
atoi(s) ==
    IF Len(s) > 0 /\ s[1] = "-" THEN 0 - atoi_digits(s, 2, 0)
    ELSE IF Len(s) > 0 /\ s[1] = "+" THEN atoi_digits(s, 2, 0)
    ELSE atoi_digits(s, 1, 0)

\* conversion of an int to unsigned short
to_ushort(v) == v % UShortMod

\* the PID arguments the model draws from
ArgStrings ==
    { <<"2", "4", "0", "4">>, <<"8", "1", "9", "1">>, <<"9", "0", "0", "0">> }

ArgLists(max) == UNION {[1..k -> ArgStrings] : k \in 0..max}

\* Pid2Patch after the loop over argv[5..]
parsed_pids(args) == [i \in 1..Len(args) |-> to_ushort(atoi(args[i]))]

\* ---- datagrams ---------------------------------------------------------
\* bytes the model does not vary: a fixed pattern over the index
Filler(i) == (i * 7 + 71) % 256

\* first four bytes of the packets the model draws from.  The second byte
\* 73 holds pidH = 9 and a flag set under either layout.
PktHdrs ==
    { <<71, 73, 100, 27>>,      \* PID 2404, a flag set
      <<71, 255, 255, 219>>,    \* PID 8191, every flag set
      <<70, 73, 100, 27>>,      \* PID 2404, sync byte broken
      <<71, 0, 100, 16>> }      \* PID 100, on no list

\* the packets of the datagrams the processing loop receives
LoopPkts ==
    { <<>>, << <<71, 73, 100, 27>> >>,
      << <<70, 73, 100, 27>>, <<71, 73, 100, 27>> >> }

\* lengths of the leading header: none, RTP
HdrLens == {0, 12}

\* the datagram of h header bytes and the packets with the headers hs
Datagram(h, hs) ==
    [i \in 1..(h + TS_LEN * Len(hs)) |->
        IF i <= h THEN Filler(i)
        ELSE LET k == (i - h - 1) \div TS_LEN
                 j == (i - h - 1) % TS_LEN
             IN  IF j < 4 THEN hs[k + 1][j + 1] ELSE Filler(i)]

Datagrams(max) ==
    {Datagram(h, hs) : h \in HdrLens, hs \in UNION {[1..k -> PktHdrs] : k \in 0..max}}

LoopDatagrams == {Datagram(h, hs) : h \in HdrLens, hs \in LoopPkts}

\* ---- main --------------------------------------------------------------
\* faulty variant: every datagram is taken to start with a 12-byte RTP header
n_ts_assume_rtp(n) == IF n < 12 THEN 0 ELSE (n - 12) \div TS_LEN

\* n_in / TS_LEN
n_ts_of(n) == n \div TS_LEN

\* n_in - n_ts * TS_LEN
ts_offset_of(n, k) == n - k * TS_LEN

Init ==
    /\ pc = "start"
    /\ argc \in 1..(5 + MaxPidArgs)
    /\ argv \in ArgLists(MaxPidArgs)
    /\ Len(argv) = (IF argc > 5 THEN argc - 5 ELSE 0)
    /\ layout \in Layouts
    /\ Pid2Patch = <<>>
    /\ Pid2PatchCount = 0
    /\ fd_ok = FALSE
    /\ msgbuf = <<>>
    /\ n_in = 0 /\ n_ts = 0 /\ ts_offset = 0 /\ n_out = 0
    /\ n_patched = 0
    /\ count_udp = 0 /\ count_ts = 0 /\ count_patched = 0
    /\ sync_lines = 0
    /\ err = "none"
    /\ rx = <<>>
    /\ rx_seq = 0
    /\ tx_ids = <<>>
    /\ tx_buf = <<>>
    /\ tx_len = 0

\* parse_args: usage and exit(1), or one Pid2Patch entry per PID argument.
\* No argument is checked against 0..8191 and the count is not checked
\* against the 100 entries of the array; MaxPidArgs keeps it below that.
ParseArgs ==
    /\ pc = "start"
    /\ IF argc < 5
       THEN /\ pc' = "exit"
            /\ UNCHANGED <<Pid2Patch, Pid2PatchCount>>
       ELSE /\ pc' = "sockets"
            /\ Pid2Patch' = parsed_pids(argv)
            /\ Pid2PatchCount' = Len(argv)
    /\ UNCHANGED <<argc, argv, layout, fd_ok, msgbuf, n_in, n_ts, ts_offset,
                   n_out, n_patched, count_udp, count_ts, count_patched,
                   sync_lines, err, rx, rx_seq, tx_ids, tx_buf, tx_len>>

\* create_sockets and main's test of its result
CreateSockets ==
    /\ pc = "sockets"
    /\ \E ok \in BOOLEAN :
          /\ fd_ok' = ok
          /\ pc' = IF ok THEN "recv" ELSE "exit"
    /\ UNCHANGED <<argc, argv, layout, Pid2Patch, Pid2PatchCount, msgbuf,
                   n_in, n_ts, ts_offset, n_out, n_patched, count_udp,
                   count_ts, count_patched, sync_lines, err, rx, rx_seq, tx_ids, tx_buf, tx_len>>

\* recvfrom delivers the datagram d
RecvOk(d) ==
    /\ pc = "recv"
    /\ count_udp < MaxDatagrams
    /\ msgbuf' = d
    /\ n_in' = Len(d)
    /\ rx' = d
    /\ rx_seq' = rx_seq + 1
    /\ pc' = "patch"
    /\ UNCHANGED <<argc, argv, layout, Pid2Patch, Pid2PatchCount, fd_ok, n_ts,
                   ts_offset, n_out, n_patched, count_udp, count_ts,
                   count_patched, sync_lines, err, tx_ids, tx_buf, tx_len>>

\* recvfrom fails: perror and continue
RecvFail ==
    /\ pc = "recv"
    /\ err' = "recvfrom"
    /\ pc' = "recv"
    /\ UNCHANGED <<argc, argv, layout, Pid2Patch, Pid2PatchCount, fd_ok,
                   msgbuf, n_in, n_ts, ts_offset, n_out, n_patched, count_udp,
                   count_ts, count_patched, sync_lines, rx, rx_seq, tx_ids, tx_buf, tx_len>>

Recv ==
    \/ \E d \in LoopDatagrams : RecvOk(d)
    \/ RecvFail

\* compute the number of packets and the offset, patch, update the counters
\* (the status line printed every 5 seconds changes none of them)
Process ==
    /\ pc = "patch"
    /\ LET k == n_ts_of(n_in)
           o == ts_offset_of(n_in, k)
           r == patch_ts(msgbuf, o, k)
       IN  /\ n_ts' = k
           /\ ts_offset' = o
           /\ msgbuf' = r.buf
           /\ n_patched' = r.n_patched
           /\ sync_lines' = r.sync_lines
           /\ count_patched' = count_patched + r.n_patched
           /\ count_udp' = count_udp + 1
           /\ count_ts' = count_ts + k
    /\ pc' = "send"
    /\ UNCHANGED <<argc, argv, layout, Pid2Patch, Pid2PatchCount, fd_ok, n_in,
                   n_out, err, rx, rx_seq, tx_ids, tx_buf, tx_len>>

\* what sendto may return for a datagram of n bytes
SendResults(n) == {0 - 1, n} \cup (IF n > 0 THEN {n - 1} ELSE {})

\* the sendto call with its result res, and perror when it failed or was short
SendCall(res) ==
    /\ err' = IF res < 0 \/ res # n_in THEN "sendto" ELSE err
    /\ tx_ids' = Append(tx_ids, rx_seq)
    /\ tx_buf' = msgbuf
    /\ tx_len' = n_in
    /\ UNCHANGED <<argc, argv, layout, Pid2Patch, Pid2PatchCount, fd_ok,
                   msgbuf, count_udp, count_ts, count_patched, rx, rx_seq>>

\* the end of an iteration: the locals of the loop body go out of scope
EndIteration ==
    /\ n_in' = 0 /\ n_ts' = 0 /\ ts_offset' = 0 /\ n_out' = 0
    /\ n_patched' = 0 /\ sync_lines' = 0

\* faulty variant: a send that fails ends the program
SendHalts ==
    /\ pc = "send"
    /\ \E res \in SendResults(n_in) :
          /\ SendCall(res)
          /\ pc' = IF res < 0 \/ res # n_in THEN "exit" ELSE "recv"
    /\ EndIteration

\* faulty variant: a short send is sent again
SendRetries ==
    /\ pc = "send"
    /\ \E res \in SendResults(n_in) :
          /\ SendCall(res)
          /\ IF res >= 0 /\ res # n_in /\ Len(tx_ids) < 2 * MaxDatagrams
             THEN /\ pc' = "send"
                  /\ n_out' = res
                  /\ UNCHANGED <<n_in, n_ts, ts_offset, n_patched, sync_lines>>
             ELSE /\ pc' = "recv"
                  /\ EndIteration

\* sendto of msgbuf[0..n_in-1]; a failed or short send: perror and continue.
\* n_out holds the result res only until the iteration ends here.
Send ==
    /\ pc = "send"
    /\ \E res \in SendResults(n_in) : SendCall(res)
    /\ pc' = "recv"
    /\ EndIteration

Next == ParseArgs \/ CreateSockets \/ Recv \/ Process \/ Send

Spec == Init /\ [][Next]_vars

\* ---- the processing loop under the scheduling of a sequential program ---
\* main runs on: a step that can be taken is taken.  recvfrom blocks, so no
\* fairness is stated for Recv.
LiveSpec == Spec /\ WF_vars(Process) /\ WF_vars(Send)

\* ---- one iteration on a datagram just received -------------------------
\* The state after parse_args, create_sockets and a first recvfrom.
PatchInit ==
    /\ pc = "patch"
    /\ argv \in ArgLists(MaxPidArgs)
    /\ argc = 5 + Len(argv)
    /\ layout \in Layouts
    /\ Pid2Patch = parsed_pids(argv)
    /\ Pid2PatchCount = Len(argv)
    /\ fd_ok = TRUE
    /\ msgbuf \in Datagrams(MaxPackets)
    /\ n_in = Len(msgbuf)
    /\ n_ts = 0 /\ ts_offset = 0 /\ n_out = 0
    /\ n_patched = 0
    /\ count_udp = 0 /\ count_ts = 0 /\ count_patched = 0
    /\ sync_lines = 0
    /\ err = "none"
    /\ rx = msgbuf
    /\ rx_seq = 1
    /\ tx_ids = <<>>
    /\ tx_buf = <<>>
    /\ tx_len = 0

PatchNext == Process \/ Send

SpecPatch == PatchInit /\ [][PatchNext]_vars

\* ---- the framing of every datagram length ------------------------------
\* The state after parse_args without PID arguments, create_sockets and a
\* first recvfrom of a datagram of any length the buffer can hold.
FrameInit ==
    /\ pc = "patch"
    /\ argv = <<>>
    /\ argc = 5
    /\ layout \in Layouts
    /\ Pid2Patch = <<>>
    /\ Pid2PatchCount = 0
    /\ fd_ok = TRUE
    /\ \E n \in 0..MSGBUFSIZE : msgbuf = [i \in 1..n |-> Filler(i)]
    /\ n_in = Len(msgbuf)
    /\ n_ts = 0 /\ ts_offset = 0 /\ n_out = 0
    /\ n_patched = 0
    /\ count_udp = 0 /\ count_ts = 0 /\ count_patched = 0
    /\ sync_lines = 0
    /\ err = "none"
    /\ rx = msgbuf
    /\ rx_seq = 1
    /\ tx_ids = <<>>
    /\ tx_buf = <<>>
    /\ tx_len = 0

FrameNext == Process

SpecFrame == FrameInit /\ [][FrameNext]_vars

\* ======================================================================
\* Properties
\* ======================================================================
\* The framing a datagram of n bytes is meant to have: n mod 188 leading
\* header bytes, then the packet windows.
HdrLen(n) == n % TS_LEN
Windows(n) == 0..(((n - HdrLen(n)) \div TS_LEN) - 1)
Base(n, j) == HdrLen(n) + j * TS_LEN

FilterSet == {Pid2Patch[i] : i \in 1..Pid2PatchCount}

\* window j of the received datagram starts with 0x47
SyncOk(j) == rx[Base(Len(rx), j) + 1] = TS_SYNC

\* window j of the received datagram carries a listed PID
Listed(j) == get_pid(rx, Base(Len(rx), j)) \in FilterSet

\* the bytes of window j other than its second and third are as received
RestSame(buf, j) ==
    \A i \in 1..TS_LEN :
        i \notin {2, 3} => buf[Base(Len(rx), j) + i] = rx[Base(Len(rx), j) + i]

\* window j is as received, byte for byte
WindowSame(buf, j) ==
    \A i \in 1..TS_LEN : buf[Base(Len(rx), j) + i] = rx[Base(Len(rx), j) + i]

SyncErrCount(buf) ==
    Cardinality({j \in Windows(Len(buf)) : buf[Base(Len(buf), j) + 1] # TS_SYNC})

\* ---- C1 ----------------------------------------------------------------
\* C1: for every datagram length N in 0..1400 written as N = H + 188*k with
\* k >= 0 and 0 <= H < 188, the loop computes n_ts = k and ts_offset = H; a
\* datagram shorter than 188 bytes has no packet, is all header and is left
\* as received; ts_offset + 188*n_ts = N always.
FramingByLength ==
    pc = "send" =>
        /\ \A k \in 0..(MSGBUFSIZE \div TS_LEN), H \in 0..(TS_LEN - 1) :
              n_in = H + TS_LEN * k => (n_ts = k /\ ts_offset = H)
        /\ ts_offset + TS_LEN * n_ts = n_in
        /\ n_in < TS_LEN => (n_ts = 0 /\ ts_offset = n_in /\ msgbuf = rx)

FramingWitness ==
    /\ pc = "send"
    /\ n_in = MSGBUFSIZE
    /\ n_ts = 7
    /\ ts_offset = 84

\* ---- C2 ----------------------------------------------------------------
\* C2: every packet window that starts with 0x47 and carries a listed PID
\* reads PID 8191 after patch_ts, and its sync byte, its three flag bits,
\* its fourth byte and its payload are as received.
ListedPidBecomesNull ==
    pc = "send" =>
        \A j \in Windows(Len(rx)) :
            (SyncOk(j) /\ Listed(j)) =>
                /\ get_pid(msgbuf, Base(Len(rx), j)) = PID_NULL
                /\ flags(msgbuf, Base(Len(rx), j)) = flags(rx, Base(Len(rx), j))
                /\ RestSame(msgbuf, j)

ListedPidWitness ==
    /\ pc = "send"
    /\ \E j \in Windows(Len(rx)) :
          /\ SyncOk(j) /\ Listed(j)
          /\ get_pid(rx, Base(Len(rx), j)) = 2404
          /\ flags(rx, Base(Len(rx), j)) # 0
          /\ get_pid(msgbuf, Base(Len(rx), j)) = PID_NULL
          /\ msgbuf # rx

\* ---- C3 ----------------------------------------------------------------
\* the indexes at which buf differs from the datagram received
Changed(buf) == {i \in 1..Len(rx) : buf[i] # rx[i]}

\* C3: the datagram handed to sendto has the received length, and a byte
\* of it differs from the received one only if it is the second or third
\* byte of a window that starts with 0x47 and carries a listed PID, and
\* then the flag bits of the second byte are as received.
OnlyListedPidBitsChange ==
    (pc = "recv" /\ Len(tx_ids) = rx_seq /\ rx_seq > 0) =>
        /\ tx_len = Len(rx)
        /\ Len(tx_buf) = Len(rx)
        /\ \A i \in Changed(tx_buf) :
              /\ i > HdrLen(Len(rx))
              /\ (i - 1 - HdrLen(Len(rx))) % TS_LEN \in {1, 2}
              /\ SyncOk((i - 1 - HdrLen(Len(rx))) \div TS_LEN)
              /\ Listed((i - 1 - HdrLen(Len(rx))) \div TS_LEN)
        /\ \A j \in Windows(Len(rx)) :
              flags(tx_buf, Base(Len(rx), j)) = flags(rx, Base(Len(rx), j))

OnlyListedPidBitsWitness ==
    /\ pc = "recv"
    /\ Len(tx_ids) = 1
    /\ HdrLen(Len(rx)) = 12
    /\ \E j, k \in Windows(Len(rx)) :
          /\ SyncOk(j) /\ Listed(j) /\ ~WindowSame(tx_buf, j)
          /\ SyncOk(k) /\ ~Listed(k) /\ WindowSame(tx_buf, k)

\* ---- C4 ----------------------------------------------------------------
\* every sync-broken window is left as received, and the windows after it
\* are still examined: a later listed packet reads PID 8191
BrokenWindowsSkipped ==
    \A j \in Windows(Len(rx)) :
        /\ ~SyncOk(j) => WindowSame(msgbuf, j)
        /\ (SyncOk(j) /\ Listed(j)) => get_pid(msgbuf, Base(Len(rx), j)) = PID_NULL

Duplicated(v) ==
    \E a, b \in 1..Pid2PatchCount : a # b /\ Pid2Patch[a] = v /\ Pid2Patch[b] = v

\* C5: a packet that starts with 0x47 and carries a PID listed more than
\* once is rewritten to 8191 and adds exactly 1 to the value patch_ts
\* returns.
DuplicateEntriesCountOnce ==
    pc = "send" =>
        \A j \in Windows(Len(rx)) :
            (SyncOk(j) /\ Duplicated(get_pid(rx, Base(Len(rx), j)))) =>
                /\ get_pid(msgbuf, Base(Len(rx), j)) = PID_NULL
                /\ match_loop(rx, Base(Len(rx), j), 0, 0).n = 1
                /\ Len(rx) = TS_LEN => n_patched = 1

\* ---- C6 ----------------------------------------------------------------
\* C6: with 8191 not on the list, patch_ts on the buffer a first patch_ts
\* produced changes no byte and returns 0.
SecondPatchIsNoOp ==
    (pc = "send" /\ PID_NULL \notin FilterSet) =>
        LET r == patch_ts(msgbuf, ts_offset, n_ts)
        IN  r.buf = msgbuf /\ r.n_patched = 0

SecondPatchWitness ==
    /\ pc = "send"
    /\ PID_NULL \notin FilterSet
    /\ n_patched = 2
    /\ msgbuf # rx

\* ---- C7 ----------------------------------------------------------------
InLoop == pc \in {"recv", "patch", "send"}

\* a failed receive: back to recvfrom, nothing patched, sent or counted
FailedRecvSkips ==
    [][(pc = "recv" /\ rx_seq' = rx_seq) =>
          /\ pc' = "recv"
          /\ UNCHANGED <<msgbuf, tx_ids, tx_buf, tx_len, count_udp, count_ts, count_patched>>]_vars

\* whatever sendto returns, the next step of the loop is the next recvfrom
SendThenRecv == [][pc = "send" => pc' = "recv"]_vars

\* the loop is never left
LoopNeverLeft == [][InLoop => InLoop']_vars

\* C7: once the sockets are created no runtime error halts the loop: a
\* failed receive returns to receiving without patching, sending or
\* counting; a failed or short send is followed by the next receive; from
\* every state of the loop a receive is eventually attempted.
NoRuntimeErrorHalts ==
    /\ FailedRecvSkips
    /\ SendThenRecv
    /\ LoopNeverLeft
    /\ [](InLoop => <>(pc = "recv"))

\* a receive failed after an iteration, and the loop is at recvfrom again
NoRuntimeErrorWitness ==
    /\ pc = "recv"
    /\ err = "recvfrom"
    /\ Len(tx_ids) = 1
    /\ count_udp = 1
    /\ count_ts = 2

\* ---- C8 ----------------------------------------------------------------
\* C8: after parse_args the filter list holds at most 100 entries and every
\* entry is a PID value in 0..8191.
FilterListBounded ==
    pc # "start" =>
        /\ Pid2PatchCount <= Pid2PatchCap
        /\ \A i \in 1..Pid2PatchCount : Pid2Patch[i] \in 0..PID_NULL

\* ---- C9 ----------------------------------------------------------------
\* C9: every datagram received is framed and patched, then handed to
\* sendto once, with the received length, before the next recvfrom: the
\* sendto calls are those of the datagrams received, in that order, one
\* each, and each sends the received datagram as patch_ts leaves it.
ReceivePatchSendInOrder ==
    InLoop =>
        /\ Len(tx_ids) = (IF pc = "recv" THEN rx_seq ELSE rx_seq - 1)
        /\ count_udp = (IF pc = "patch" THEN rx_seq - 1 ELSE rx_seq)
        /\ \A i \in 1..Len(tx_ids) : tx_ids[i] = i
        /\ (pc = "recv" /\ rx_seq > 0) =>
              /\ tx_len = Len(rx)
              /\ Len(tx_buf) = tx_len
              /\ tx_buf =
                    patch_ts(rx, HdrLen(Len(rx)), Cardinality(Windows(Len(rx)))).buf

ReceivePatchSendWitness ==
    /\ pc = "recv"
    /\ tx_ids = <<1, 2>>
    /\ err = "sendto"
    /\ tx_buf # rx
    /\ tx_len = Len(rx)

\* ---- C10 ---------------------------------------------------------------
\* C10: patch_ts returns at most the number of packets of the datagram
\* that start with 0x47, so the running totals keep
\* count_patched <= count_ts.
PatchedAtMostPackets ==
    /\ InLoop => count_patched <= count_ts
    /\ pc = "send" => n_patched <= n_ts - SyncErrCount(rx)

====
